---- MODULE Spec2Model ----
(***************************************************************************)
(* Model of endpoints/decorators/auth.py: the auth decorator and its three *)
(* specializations basic_auth, client_auth and token_auth.                 *)
(*                                                                         *)
(* A handler is defined with a stack of decorator layers; layers[1] is the *)
(* innermost one (applied first), layers[Len(layers)] the outermost.  Once *)
(* the definition is complete the decorated handler is called; every call  *)
(* walks the layers from the outermost to the innermost and then runs the  *)
(* original handler.  Each step of a call is one action.                   *)
(***************************************************************************)
EXTENDS Integers, Sequences, FiniteSets, TLC

(***************************************************************************)
(* Bounds                                                                  *)
(***************************************************************************)
\* largest number of decorator layers stacked on the handler
MaxLayers == 2

\* the calls that can be in flight at once
CallIds == {1}

\* the calls of the specification with two calls in flight
AllCallIds == {1, 2}

Layers == 1..MaxLayers

(***************************************************************************)
(* Python values: a type tag and a printable value                         *)
(***************************************************************************)
PyNone == [t |-> "NoneType", v |-> "None"]
PyStr(s) == [t |-> "str", v |-> s]
PyTrue == [t |-> "bool", v |-> "True"]
PyObj(cls, id) == [t |-> cls, v |-> id]

\* Python's `not x`
Not(x) ==
    \/ x.t = "NoneType"
    \/ x.t = "str" /\ x.v = ""
    \/ x.t = "bool" /\ x.v = "False"

(***************************************************************************)
(* Exceptions                                                              *)
(***************************************************************************)
NoExc == [cls |-> "", code |-> 0, realm |-> "", args |-> <<>>]
PyExc(cls, msg) == [cls |-> cls, code |-> 0, realm |-> "", args |-> <<msg>>]
CallError(code, msg) == [cls |-> "CallError", code |-> code, realm |-> "", args |-> <<msg>>]
AccessDenied(realm, msg) == [cls |-> "AccessDenied", code |-> 0, realm |-> realm, args |-> <<msg>>]

\* e.message: the single constructor argument, else the empty string
message(e) == IF Len(e.args) = 1 THEN e.args[1] ELSE ""

\* classes caught by `except Exception`
IsException(e) == e.cls \in {"CallError", "AccessDenied", "ValueError", "KeyError",
                             "AttributeError", "TypeError"}
\* classes caught by `except CallError`
IsCallError(e) == e.cls = "CallError"

(***************************************************************************)
(* Outcome of a callable: nothing yet, a returned value, a raised exception*)
(***************************************************************************)
NoOut == [kind |-> "none", value |-> PyNone, exc |-> NoExc]
Returned(v) == [kind |-> "return", value |-> v, exc |-> NoExc]
Raised(e) == [kind |-> "raise", value |-> PyNone, exc |-> e]

(***************************************************************************)
(* Keyword arguments: a set of <<name, value>> pairs with distinct names   *)
(***************************************************************************)
KwNames(kw) == {p[1] : p \in kw}
KwGet(kw, n) == (CHOOSE p \in kw : p[1] = n)[2]
KwDel(kw, n) == {p \in kw : p[1] # n}

(***************************************************************************)
(* The request adapter (external): what the accessors of a request return. *)
(* r_none carries no credentials, r_first only the first field of a pair,  *)
(* r_second only the second one, r_full all of them.                       *)
(***************************************************************************)
Requests == {"r_none", "r_first", "r_second", "r_full", "r_other"}

get_auth_basic(r) ==
    CASE r = "r_none" -> <<PyNone, PyNone>>
      [] r = "r_first" -> <<PyStr("foo"), PyStr("")>>
      [] r = "r_second" -> <<PyStr(""), PyStr("bar")>>
      [] r = "r_other" -> <<PyStr("baz"), PyStr("qux")>>
      [] OTHER -> <<PyStr("foo"), PyStr("bar")>>

client_tokens(r) ==
    CASE r = "r_none" -> <<PyNone, PyNone>>
      [] r = "r_first" -> <<PyStr("id"), PyNone>>
      [] r = "r_second" -> <<PyStr(""), PyStr("secret")>>
      [] r = "r_other" -> <<PyStr("id2"), PyStr("secret2")>>
      [] OTHER -> <<PyStr("id"), PyStr("secret")>>

access_token(r) ==
    CASE r = "r_none" -> PyNone
      [] r = "r_first" -> PyStr("")
      [] r = "r_other" -> PyStr("token2")
      [] OTHER -> PyStr("token")

\* decorated_self.request
request_of(decorated_self) == PyObj("Request", decorated_self.v)

(***************************************************************************)
(* Inputs                                                                  *)
(***************************************************************************)
Variants == {"auth", "basic_auth", "client_auth", "token_auth"}

Omitted == [t |-> "omitted", v |-> ""]
Unset == [t |-> "unset", v |-> ""]
Validator == PyObj("function", "validator")

\* the arguments a decorator is written with: @auth(realm, target=...)
DecorateArgs ==
    { [realm |-> Omitted, target |-> Omitted],
      [realm |-> Omitted, target |-> PyNone],
      [realm |-> Omitted, target |-> Validator],
      [realm |-> PyStr("custom"), target |-> Omitted],
      [realm |-> PyStr("custom"), target |-> Validator] }

\* the positional and keyword arguments a call of the handler carries
ArgLists ==
    { [args |-> <<>>, kwargs |-> {}],
      [args |-> <<PyStr("a")>>, kwargs |-> {<<"k", PyStr("b")>>}],
      [args |-> <<>>, kwargs |-> {<<"request", PyStr("x")>>}] }

\* what a validator can do when it is invoked
ValidatorOutcomes ==
    { Returned(PyTrue), Returned(PyNone),
      Raised(CallError(400, "bad request")),
      Raised(PyExc("KeyError", "no such user")),
      Raised(PyExc("AttributeError", "no attribute")),
      Raised(PyExc("TypeError", "bad operand")),
      Raised(PyExc("SystemExit", "exit")) }

\* what the original handler can do when it is invoked
HandlerOutcomes ==
    { Returned(PyStr("hello world")), Raised(PyExc("TypeError", "handler failed")) }

(***************************************************************************)
(* Binding a call of a bound method with the positional arguments pargs    *)
(* and the keyword arguments kw, the method being defined with parameters  *)
(*     self, request, star-args, star-star-kwargs                          *)
(* which is the signature of handle_target, target and                     *)
(* normalize_target_params.  A keyword named like a parameter that is      *)
(* already bound, or a missing request, is a TypeError at the call.        *)
(***************************************************************************)
bind(pargs, kw) ==
    IF "self" \in KwNames(kw)
       \/ (Len(pargs) >= 1 /\ "request" \in KwNames(kw))
       \/ (Len(pargs) = 0 /\ "request" \notin KwNames(kw))
    THEN [exc |-> PyExc("TypeError", "got multiple values for keyword argument"),
          request |-> PyNone, args |-> <<>>, kwargs |-> {}]
    ELSE IF Len(pargs) >= 1
    THEN [exc |-> NoExc, request |-> pargs[1], args |-> Tail(pargs), kwargs |-> kw]
    ELSE [exc |-> NoExc, request |-> KwGet(kw, "request"), args |-> <<>>,
          kwargs |-> KwDel(kw, "request")]

(***************************************************************************)
(* normalize_target_params of the four classes                             *)
(***************************************************************************)
Params(self, e, a, kw) == [self |-> self, exc |-> e, args |-> a, kwargs |-> kw]

\* mutant: the handler's positional arguments are not passed on
auth_normalize_target_params_request_only(self, request, args, kwargs) ==
    Params(self, NoExc, <<request>>, kwargs)

auth_normalize_target_params(self, request, args, kwargs) ==
    Params(self, NoExc, <<request>> \o args, kwargs)

\* mutant: the password is not checked
basic_auth_normalize_target_params_no_password_check(self, request, args, kwargs) ==
    LET up == get_auth_basic(request.v)
        username == up[1]
        password == up[2]
    IN IF Not(username)
       THEN Params(self, PyExc("ValueError", "username is required"), <<>>, {})
       ELSE Params(self, NoExc, <<>>,
                   { <<"request", request>>, <<"username", username>>,
                     <<"password", password>> })

basic_auth_normalize_target_params(self, request, args, kwargs) ==
    LET up == get_auth_basic(request.v)
        username == up[1]
        password == up[2]
    IN IF Not(username)
       THEN Params(self, PyExc("ValueError", "username is required"), <<>>, {})
       ELSE IF Not(password)
       THEN Params(self, PyExc("ValueError", "password is required"), <<>>, {})
       ELSE Params(self, NoExc, <<>>,
                   { <<"request", request>>, <<"username", username>>,
                     <<"password", password>> })

client_auth_normalize_target_params(self, request, args, kwargs) ==
    LET ct == client_tokens(request.v)
        client_id == ct[1]
        client_secret == ct[2]
    IN IF Not(client_id)
       THEN Params(self, PyExc("ValueError", "client_id is required"), <<>>, {})
       ELSE IF Not(client_secret)
       THEN Params(self, PyExc("ValueError", "client_secret is required"), <<>>, {})
       ELSE Params(self, NoExc, <<>>,
                   { <<"request", request>>, <<"client_id", client_id>>,
                     <<"client_secret", client_secret>> })

token_auth_normalize_target_params(self, request, args, kwargs) ==
    LET token == access_token(request.v)
    IN IF Not(token)
       THEN Params(self, PyExc("ValueError", "access_token is required"), <<>>, {})
       ELSE Params(self, NoExc, <<>>,
                   { <<"request", request>>, <<"access_token", token>> })

\* self.normalize_target_params(...): the method of the instance's class
normalize_target_params(self, request, args, kwargs) ==
    CASE self.variant = "auth" -> auth_normalize_target_params(self, request, args, kwargs)
      [] self.variant = "basic_auth" ->
            basic_auth_normalize_target_params(self, request, args, kwargs)
      [] self.variant = "client_auth" ->
            client_auth_normalize_target_params(self, request, args, kwargs)
      [] OTHER -> token_auth_normalize_target_params(self, request, args, kwargs)

(***************************************************************************)
(* target: the validator call and the except clause around it              *)
(***************************************************************************)
ValidatorRequired == CallError(403, "You need a validator function to use authentication")

\* mutant: only TypeError is caught
target_except_type_error_only(e) ==
    IF e.cls \in {"TypeError"} THEN ValidatorRequired ELSE e

\* mutant: only AttributeError is caught
target_except_attribute_error_only(e) ==
    IF e.cls \in {"AttributeError"} THEN ValidatorRequired ELSE e

\* except (AttributeError, TypeError): raise CallError(403, ...)
target_except(e) ==
    IF e.cls \in {"AttributeError", "TypeError"} THEN ValidatorRequired ELSE e

\* the outcome of self.target(...) given the outcome of self.target_callback(...)
target_result(vout) ==
    IF vout.kind = "raise" THEN Raised(target_except(vout.exc)) ELSE vout

(***************************************************************************)
(* handle_target: the check of the verdict and the two except clauses      *)
(***************************************************************************)
Frame(self, out) == [self |-> self, out |-> out]

\* mutant: no `except CallError: raise` clause
handle_target_except_wraps_all(self, e) ==
    IF IsException(e) THEN Frame(self, Raised(AccessDenied(self.realm, message(e))))
    ELSE Frame(self, Raised(e))

\* mutant: the failure is kept on the instance
handle_target_except_keeps_failure(self, e) ==
    IF IsCallError(e) THEN Frame(self, Raised(e))
    ELSE IF IsException(e)
    THEN Frame([self EXCEPT !.target_callback = Unset],
               Raised(AccessDenied(self.realm, message(e))))
    ELSE Frame(self, Raised(e))

\* mutant: the message of a rejection is kept on the instance as its realm
handle_target_except_overwrites_realm(self, e) ==
    IF IsCallError(e) THEN Frame(self, Raised(e))
    ELSE IF IsException(e)
    THEN Frame([self EXCEPT !.realm = message(e)],
               Raised(AccessDenied(self.realm, message(e))))
    ELSE Frame(self, Raised(e))

\* mutant: the AccessDenied does not carry the message of what it replaces
handle_target_except_drops_message(self, e) ==
    IF IsCallError(e) THEN Frame(self, Raised(e))
    ELSE IF IsException(e)
    THEN Frame(self, Raised(AccessDenied(self.realm, "")))
    ELSE Frame(self, Raised(e))

\* except CallError: raise / except Exception as e: raise AccessDenied(...)
handle_target_except(self, e) ==
    IF IsCallError(e) THEN Frame(self, Raised(e))
    ELSE IF IsException(e) THEN Frame(self, Raised(AccessDenied(self.realm, message(e))))
    ELSE Frame(self, Raised(e))

\* mutant: the verdict is not checked, a falsy return passes
handle_target_result_unchecked(self, tout) ==
    IF tout.kind = "raise" THEN handle_target_except(self, tout.exc)
    ELSE Frame(self, Returned(PyNone))

\* the outcome of handle_target given the outcome of self.target(...)
handle_target_result(self, tout) ==
    IF tout.kind = "raise" THEN handle_target_except(self, tout.exc)
    ELSE IF Not(tout.value)
    THEN handle_target_except(self, PyExc("ValueError", "target did not return True"))
    ELSE Frame(self, Returned(PyNone))

(***************************************************************************)
(* decorate of the four classes                                            *)
(***************************************************************************)
Decoration(e, self) == [exc |-> e, self |-> self]
NoInstance == [variant |-> "", realm |-> "", target_callback |-> Unset]

auth_decorate(variant, realm, target) ==
    LET r == IF realm = Omitted THEN "" ELSE realm.v
        t == IF target = Omitted THEN PyNone ELSE target
    IN Decoration(NoExc, [variant |-> variant, realm |-> r,
                          target_callback |-> IF Not(t) THEN Unset ELSE t])

basic_auth_decorate(variant, realm, target) ==
    IF realm # Omitted \/ target = Omitted
    THEN Decoration(PyExc("TypeError", "decorate() arguments"), NoInstance)
    ELSE auth_decorate(variant, PyStr("basic"), target)

\* mutant: client_auth does not go through basic_auth's decorate
client_auth_decorate_generic_realm(variant, realm, target) ==
    IF realm # Omitted \/ target = Omitted
    THEN Decoration(PyExc("TypeError", "decorate() arguments"), NoInstance)
    ELSE auth_decorate(variant, Omitted, target)

client_auth_decorate(variant, realm, target) ==
    IF realm # Omitted \/ target = Omitted
    THEN Decoration(PyExc("TypeError", "decorate() arguments"), NoInstance)
    ELSE basic_auth_decorate(variant, Omitted, target)

token_auth_decorate(variant, realm, target) ==
    IF realm # Omitted \/ target = Omitted
    THEN Decoration(PyExc("TypeError", "decorate() arguments"), NoInstance)
    ELSE auth_decorate(variant, PyStr("Bearer"), target)

decorate(variant, realm, target) ==
    CASE variant = "auth" -> auth_decorate(variant, realm, target)
      [] variant = "basic_auth" -> basic_auth_decorate(variant, realm, target)
      [] variant = "client_auth" -> client_auth_decorate(variant, realm, target)
      [] OTHER -> token_auth_decorate(variant, realm, target)

(***************************************************************************)
(* decorated: the wrapper decorate returns                                 *)
(***************************************************************************)
\* self.target_callback(...): the attribute lookup and the call of its value
target_callee(self) ==
    IF self.target_callback = Unset
    THEN Raised(PyExc("AttributeError", "no attribute target_callback"))
    ELSE IF self.target_callback.t # "function"
    THEN Raised(PyExc("TypeError", "object is not callable"))
    ELSE Returned(self.target_callback)

\* mutant: a rejected validation is tried once more
handle_target_next_retry(call, out) ==
    IF out.kind = "raise"
    THEN IF out.exc.cls = "AccessDenied" /\ call.vcalls[call.layer] < 2
         THEN "target" ELSE "done"
    ELSE "func"

\* mutant: the parameters are kept where every call of the handler finds
\* them, and the one that extracted last wins
target_params_shared(cs, c) ==
    LET others == { d \in DOMAIN cs : d # c /\ cs[d].extracted # {} }
        d == IF others = {} THEN c ELSE CHOOSE o \in others : TRUE
    IN [args |-> cs[d].param_args, kwargs |-> cs[d].param_kwargs]

\* param_args, param_kwargs: the locals of the activation of handle_target
\* that runs call c
target_params(cs, c) ==
    [args |-> cs[c].param_args, kwargs |-> cs[c].param_kwargs]

\* mutant: an AccessDenied of handle_target does not leave decorated
handle_target_next_ignores_denial(call, out) ==
    IF out.kind = "raise" /\ out.exc.cls # "AccessDenied" THEN "done" ELSE "func"

\* mutant: func is called whatever handle_target did
handle_target_next_always_func(call, out) == "func"

\* where decorated goes once handle_target is over: an exception leaves
\* decorated, a normal return goes on to func
handle_target_next(call, out) ==
    IF out.kind = "raise" THEN "done" ELSE "func"

\* mutant: the keyword arguments are not passed on to func
func_call_without_kwargs(call) ==
    [self |-> call.decorated_self, args |-> call.args, kwargs |-> {}]

\* func(decorated_self, *args, **kwargs)
func_call(call) ==
    [self |-> call.decorated_self, args |-> call.args, kwargs |-> call.kwargs]

\* mutant: func runs inside the try block of handle_target
decorated_result_classified(fout) ==
    IF fout.kind = "raise" /\ IsException(fout.exc)
    THEN Raised(target_except(fout.exc))
    ELSE fout

\* return func(...)
decorated_result(fout) == fout

(***************************************************************************)
(* State                                                                   *)
(***************************************************************************)
VARIABLES
    layers,     \* the decorator instances on the handler, innermost first
    written,    \* the decorator expressions as written, innermost first
    phase,      \* "defining" the handler, "failed" (a decoration raised), "serving"
    calls,      \* the state of each call of the decorated handler
    prev        \* an earlier call that is over, as its caller saw it

vars == <<layers, written, phase, calls, prev>>

IdleCall ==
    [ pc |-> "idle",
      layer |-> 0,                  \* the layer whose decorated is running
      decorated_self |-> PyNone,    \* the controller the handler is called on
      args |-> <<>>,                \* the positional arguments of the call
      kwargs |-> {},                \* the keyword arguments of the call
      request |-> PyNone,           \* handle_target's request parameter
      param_args |-> <<>>,          \* what normalize_target_params returned
      param_kwargs |-> {},
      entered |-> {},               \* layers whose decorated was called
      extracted |-> {},             \* layers whose normalize_target_params returned
      vcalls |-> [l \in Layers |-> 0],      \* validator invocations per layer
      vargs |-> [l \in Layers |-> <<>>],    \* what the validator was called with
      vkwargs |-> [l \in Layers |-> {}],
      vout |-> [l \in Layers |-> NoOut],    \* what the validator did
      hcalls |-> 0,                 \* invocations of the original handler
      hself |-> PyNone,             \* what the handler was called with
      hargs |-> <<>>,
      hkwargs |-> {},
      hout |-> NoOut,               \* what the handler did
      result |-> NoOut ]            \* the outcome of the decorated call

Init ==
    /\ layers = <<>>
    /\ phase = "defining"
    /\ written = <<>>
    /\ calls = [c \in AllCallIds |-> IdleCall]
    /\ prev = IdleCall

(***************************************************************************)
(* Defining the handler                                                    *)
(***************************************************************************)
\* @variant(realm, target=...) applied to the handler (or to the layers below)
Decorate(variant, da) ==
    /\ phase = "defining"
    /\ Len(layers) < MaxLayers
    /\ LET d == decorate(variant, da.realm, da.target)
       IN IF d.exc # NoExc
          THEN /\ phase' = "failed"
               /\ UNCHANGED <<layers, written>>
          ELSE /\ layers' = Append(layers, d.self)
               /\ written' = Append(written, [variant |-> variant, realm |-> da.realm,
                                              target |-> da.target])
               /\ UNCHANGED phase
    /\ UNCHANGED <<calls, prev>>

\* the definition is complete: the decorated handler becomes reachable
Publish ==
    /\ phase = "defining"
    /\ Len(layers) >= 1
    /\ phase' = "serving"
    /\ UNCHANGED <<layers, written, calls, prev>>

(***************************************************************************)
(* A call of the decorated handler                                         *)
(***************************************************************************)
\* the outermost decorated is called on a controller carrying request r
StartCall(c, r, a) ==
    /\ phase = "serving"
    /\ calls[c].pc = "idle"
    /\ calls' = [calls EXCEPT ![c] =
                    [IdleCall EXCEPT !.pc = "decorated",
                                     !.layer = Len(layers),
                                     !.decorated_self = PyObj("Controller", r),
                                     !.args = a.args,
                                     !.kwargs = a.kwargs]]
    /\ UNCHANGED <<layers, written, phase, prev>>

\* self.handle_target(decorated_self.request, *args, **kwargs): the call binds
\* its arguments outside any try block
CallHandleTarget(c) ==
    LET call == calls[c]
        b == bind(<<request_of(call.decorated_self)>> \o call.args, call.kwargs)
    IN /\ call.pc = "decorated"
       /\ calls' = [calls EXCEPT ![c] =
                       IF b.exc # NoExc
                       THEN [call EXCEPT !.entered = @ \cup {call.layer},
                                         !.result = Raised(b.exc),
                                         !.pc = "done"]
                       ELSE [call EXCEPT !.entered = @ \cup {call.layer},
                                         !.request = b.request,
                                         !.pc = "handle_target"]]
       /\ UNCHANGED <<layers, written, phase, prev>>

\* param_args, param_kwargs = self.normalize_target_params(request, *args, **kwargs)
NormalizeTargetParams(c) ==
    LET call == calls[c]
        l == call.layer
        n == normalize_target_params(layers[l], call.request, call.args, call.kwargs)
        h == handle_target_except(n.self, n.exc)
    IN /\ call.pc = "handle_target"
       /\ IF n.exc # NoExc
          THEN /\ layers' = [layers EXCEPT ![l] = h.self]
               /\ calls' = [calls EXCEPT ![c] =
                               [call EXCEPT !.result = h.out, !.pc = "done"]]
          ELSE /\ layers' = [layers EXCEPT ![l] = n.self]
               /\ calls' = [calls EXCEPT ![c] =
                               [call EXCEPT !.param_args = n.args,
                                            !.param_kwargs = n.kwargs,
                                            !.extracted = @ \cup {l},
                                            !.pc = "target"]]
       /\ UNCHANGED <<written, phase, prev>>

\* ret = self.target(*param_args, **param_kwargs), up to the validator's start
CallTarget(c) ==
    LET call == calls[c]
        l == call.layer
        self == layers[l]
        p == target_params(calls, c)
        b == bind(p.args, p.kwargs)
        callee == target_callee(self)
        h == IF b.exc # NoExc
             THEN handle_target_except(self, b.exc)
             ELSE handle_target_result(self, target_result(callee))
    IN /\ call.pc = "target"
       /\ IF b.exc # NoExc \/ callee.kind = "raise"
          THEN /\ layers' = [layers EXCEPT ![l] = h.self]
               /\ calls' = [calls EXCEPT ![c] =
                               [call EXCEPT !.result = h.out, !.pc = "done"]]
          ELSE /\ calls' = [calls EXCEPT ![c] =
                               [call EXCEPT !.vcalls[l] = @ + 1,
                                            !.vargs[l] = <<b.request>> \o b.args,
                                            !.vkwargs[l] = b.kwargs,
                                            !.pc = "validator"]]
               /\ UNCHANGED layers
       /\ UNCHANGED <<written, phase, prev>>

\* the validator is over with outcome vo: the rest of target and handle_target
ValidatorDone(c, vo) ==
    LET call == calls[c]
        l == call.layer
        h == handle_target_result(layers[l], target_result(vo))
        next == handle_target_next(call, h.out)
    IN /\ call.pc = "validator"
       /\ layers' = [layers EXCEPT ![l] = h.self]
       /\ calls' = [calls EXCEPT ![c] =
                       [call EXCEPT !.vout[l] = vo,
                                    !.result = IF next = "done" THEN h.out ELSE @,
                                    !.pc = next]]
       /\ UNCHANGED <<written, phase, prev>>

ValidatorReturns(c) ==
    \E vo \in ValidatorOutcomes : vo.kind = "return" /\ ValidatorDone(c, vo)

ValidatorRaises(c) ==
    \E vo \in ValidatorOutcomes : vo.kind = "raise" /\ ValidatorDone(c, vo)

\* func is the decorated of the layer below
CallInnerDecorated(c) ==
    LET call == calls[c]
    IN /\ call.pc = "func"
       /\ call.layer > 1
       /\ calls' = [calls EXCEPT ![c] =
                       [call EXCEPT !.layer = @ - 1, !.pc = "decorated"]]
       /\ UNCHANGED <<layers, written, phase, prev>>

\* func is the original handler
CallHandler(c) ==
    LET call == calls[c]
        f == func_call(call)
    IN /\ call.pc = "func"
       /\ call.layer = 1
       /\ calls' = [calls EXCEPT ![c] =
                       [call EXCEPT !.hcalls = @ + 1,
                                    !.hself = f.self,
                                    !.hargs = f.args,
                                    !.hkwargs = f.kwargs,
                                    !.pc = "handler"]]
       /\ UNCHANGED <<layers, written, phase, prev>>

\* the original handler is over with outcome ho
HandlerDone(c, ho) ==
    LET call == calls[c]
    IN /\ call.pc = "handler"
       /\ calls' = [calls EXCEPT ![c] =
                       [call EXCEPT !.hout = ho,
                                    !.result = decorated_result(ho),
                                    !.pc = "done"]]
       /\ UNCHANGED <<layers, written, phase, prev>>

HandlerReturns(c) ==
    \E ho \in HandlerOutcomes : ho.kind = "return" /\ HandlerDone(c, ho)

HandlerRaises(c) ==
    \E ho \in HandlerOutcomes : ho.kind = "raise" /\ HandlerDone(c, ho)

\* the caller has the outcome; the next call can start
Finish(c) ==
    /\ calls[c].pc = "done"
    /\ calls' = [calls EXCEPT ![c] = IdleCall]
    /\ UNCHANGED <<layers, written, phase, prev>>

Next ==
    \/ \E variant \in Variants, da \in DecorateArgs : Decorate(variant, da)
    \/ Publish
    \/ \E c \in CallIds, r \in Requests, a \in ArgLists : StartCall(c, r, a)
    \/ \E c \in CallIds : CallHandleTarget(c)
    \/ \E c \in CallIds : NormalizeTargetParams(c)
    \/ \E c \in CallIds : CallTarget(c)
    \/ \E c \in CallIds : ValidatorReturns(c)
    \/ \E c \in CallIds : ValidatorRaises(c)
    \/ \E c \in CallIds : CallInnerDecorated(c)
    \/ \E c \in CallIds : CallHandler(c)
    \/ \E c \in CallIds : HandlerReturns(c)
    \/ \E c \in CallIds : HandlerRaises(c)
    \/ \E c \in CallIds : Finish(c)

Spec == Init /\ [][Next]_vars

\* a step of decorated for call c, once the call has started
Step(c) ==
    \/ CallHandleTarget(c)
    \/ NormalizeTargetParams(c)
    \/ CallTarget(c)
    \/ ValidatorReturns(c)
    \/ ValidatorRaises(c)
    \/ CallInnerDecorated(c)
    \/ CallHandler(c)
    \/ HandlerReturns(c)
    \/ HandlerRaises(c)

\* decorated runs synchronously in the thread of its call: a call that has
\* started goes on, given that the validator and the handler return or raise
LiveSpec == Spec /\ \A c \in CallIds : WF_vars(Step(c))

(***************************************************************************)
(* A handler that is already served, with one decorator on it              *)
(***************************************************************************)
InitServing ==
    \E variant \in Variants, da \in DecorateArgs :
        LET d == decorate(variant, da.realm, da.target)
        IN /\ d.exc = NoExc
           /\ layers = <<d.self>>
           /\ written = <<[variant |-> variant, realm |-> da.realm, target |-> da.target]>>
           /\ phase = "serving"
           /\ calls = [c \in AllCallIds |-> IdleCall]
           /\ prev = IdleCall

\* two calls of the one decorated handler in flight, their steps interleaved
NextConc ==
    \/ \E c \in AllCallIds, r \in Requests, a \in ArgLists : StartCall(c, r, a)
    \/ \E c \in AllCallIds : CallHandleTarget(c)
    \/ \E c \in AllCallIds : NormalizeTargetParams(c)
    \/ \E c \in AllCallIds : CallTarget(c)
    \/ \E c \in AllCallIds : ValidatorReturns(c)
    \/ \E c \in AllCallIds : ValidatorRaises(c)
    \/ \E c \in AllCallIds : CallHandler(c)
    \/ \E c \in AllCallIds : HandlerReturns(c)
    \/ \E c \in AllCallIds : HandlerRaises(c)
    \/ \E c \in AllCallIds : Finish(c)

SpecConc == InitServing /\ [][NextConc]_vars

\* the caller keeps the outcome of a call that is over, in place of the one
\* it kept before
Remember(c) ==
    /\ calls[c].pc = "done"
    /\ prev' = calls[c]
    /\ calls' = [calls EXCEPT ![c] = IdleCall]
    /\ UNCHANGED <<layers, written, phase>>

\* calls of the one decorated handler in sequence
NextSeq ==
    \/ \E c \in CallIds, r \in Requests, a \in ArgLists : StartCall(c, r, a)
    \/ \E c \in CallIds : CallHandleTarget(c)
    \/ \E c \in CallIds : NormalizeTargetParams(c)
    \/ \E c \in CallIds : CallTarget(c)
    \/ \E c \in CallIds : ValidatorReturns(c)
    \/ \E c \in CallIds : ValidatorRaises(c)
    \/ \E c \in CallIds : CallHandler(c)
    \/ \E c \in CallIds : HandlerReturns(c)
    \/ \E c \in CallIds : HandlerRaises(c)
    \/ \E c \in CallIds : Finish(c)
    \/ \E c \in CallIds : Remember(c)

SpecSeq == InitServing /\ [][NextSeq]_vars

(***************************************************************************)
(* Vocabulary of the properties                                            *)
(***************************************************************************)
Specializations == {"basic_auth", "client_auth", "token_auth"}

\* the credential fields a variant requires, with their values in request r
RequiredFields(variant, r) ==
    CASE variant = "basic_auth" ->
            { <<"username", get_auth_basic(r)[1]>>, <<"password", get_auth_basic(r)[2]>> }
      [] variant = "client_auth" ->
            { <<"client_id", client_tokens(r)[1]>>,
              <<"client_secret", client_tokens(r)[2]>> }
      [] variant = "token_auth" -> { <<"access_token", access_token(r)>> }
      [] OTHER -> {}

\* the required fields that are empty or absent in request r
MissingFields(variant, r) == { f[1] : f \in { g \in RequiredFields(variant, r) : Not(g[2]) } }

RequestId(call) == call.decorated_self.v

LayersOf(call) == 1..Len(layers)

\* the validator of layer l said yes in this call
Validated(call, l) ==
    call.vout[l].kind = "return" /\ ~Not(call.vout[l].value)

\* the validator of layer l returned a falsy value in this call
Refused(call, l) ==
    call.vout[l].kind = "return" /\ Not(call.vout[l].value)

\* the validator of layer l raised an exception of one of these classes
RaisedIn(call, l, classes) ==
    call.vout[l].kind = "raise" /\ call.vout[l].exc.cls \in classes

NoValidator(l) == layers[l].target_callback = Unset

IsAccessDenied(out, realm) ==
    out.kind = "raise" /\ out.exc.cls = "AccessDenied" /\ out.exc.realm = realm

\* the call ended in layer l with AccessDenied naming a field that is missing
MissingReported(call, l) ==
    \E f \in MissingFields(layers[l].variant, RequestId(call)) :
        call.result = Raised(AccessDenied(layers[l].realm, f \o " is required"))

(***************************************************************************)
(* C1: when the validator of every layer returns a truthy value, the       *)
(* original handler is invoked exactly once, on the controller and with    *)
(* the positional and keyword arguments the decorated callable received,   *)
(* and the decorated callable returns what the handler returned.           *)
(***************************************************************************)
C1_HandlerInvokedOnceWithArgs ==
    \A c \in CallIds :
        LET call == calls[c]
        IN /\ call.hcalls <= 1
           /\ (call.pc \in {"handler", "done"}
               /\ \A l \in LayersOf(call) : Validated(call, l))
              => /\ call.hcalls = 1
                 /\ call.hself = call.decorated_self
                 /\ call.hargs = call.args
                 /\ call.hkwargs = call.kwargs
                 /\ (call.pc = "done" /\ call.hout.kind = "return"
                     => call.result = Returned(call.hout.value))

C1_Witness ==
    \E c \in CallIds :
        /\ calls[c].pc = "done"
        /\ \A l \in LayersOf(calls[c]) : Validated(calls[c], l)
        /\ calls[c].kwargs # {}
        /\ calls[c].args # <<>>
        /\ calls[c].result = Returned(PyStr("hello world"))

(***************************************************************************)
(* C2: a call on a request in which a required credential field of the     *)
(* layer is empty or absent never invokes the original handler and raises  *)
(* AccessDenied with the message "<field> is required" for a field that is *)
(* missing.                                                                *)
(***************************************************************************)
C2_MissingFieldRaisesAccessDenied ==
    \A c \in CallIds :
        LET call == calls[c]
            l == call.layer
        IN (call.pc = "done" /\ l \in call.entered
            /\ MissingFields(layers[l].variant, RequestId(call)) # {})
           => call.hcalls = 0 /\ MissingReported(call, l)

C4_NoValidatorCallOnMissingField ==
    \A c \in CallIds : \A l \in LayersOf(calls[c]) :
        LET call == calls[c]
        IN (call.vcalls[l] > 0 /\ layers[l].variant \in Specializations)
           => /\ MissingFields(layers[l].variant, RequestId(call)) = {}
              /\ \A p \in call.vkwargs[l] : ~Not(p[2])

C4_Witness ==
    \E c \in CallIds : \E l \in LayersOf(calls[c]) :
        /\ calls[c].vcalls[l] > 0
        /\ layers[l].variant = "basic_auth"
        /\ calls[c].pc = "validator"

(***************************************************************************)
(* C5: decorating with the generic auth and no validator succeeds, and     *)
(* every call of the decorated handler, for every request and every        *)
(* argument list, raises CallError(403, "You need a validator function to  *)
(* use authentication"), never AccessDenied, and never invokes the         *)
(* original handler.                                                       *)
(***************************************************************************)
C5_GenericWithoutValidatorIsSetupError ==
    /\ \A da \in DecorateArgs :
           Not(IF da.target = Omitted THEN PyNone ELSE da.target)
           => decorate("auth", da.realm, da.target).exc = NoExc
    /\ \A c \in CallIds :
        LET call == calls[c]
            l == call.layer
        IN (call.pc = "done" /\ l \in call.entered
            /\ layers[l].variant = "auth" /\ NoValidator(l))
           => call.hcalls = 0 /\ call.result = Raised(ValidatorRequired)

(***************************************************************************)
(* C6: when the validator raises a CallError, the decorated call raises    *)
(* that same condition, with its status code and message, and the original *)
(* handler is not invoked.                                                 *)
(***************************************************************************)
C6_CallErrorPassesThrough ==
    \A c \in CallIds :
        LET call == calls[c]
            l == call.layer
        IN (call.pc = "done" /\ l \in call.entered /\ RaisedIn(call, l, {"CallError"}))
           => call.hcalls = 0 /\ call.result = call.vout[l]

C6_Witness ==
    \E c \in CallIds :
        LET call == calls[c]
        IN /\ call.pc = "done"
           /\ call.layer \in call.entered
           /\ RaisedIn(call, call.layer, {"CallError"})
           /\ call.result = Raised(CallError(400, "bad request"))

Classifications(call, l) ==
    { k \in {"success", "extraction-missing", "setup-error", "validation-failed",
             "passthrough"} :
        \/ k = "success" /\ call.hcalls = 1
        \/ k = "extraction-missing" /\ MissingReported(call, l)
        \/ k = "setup-error" /\ call.result = Raised(ValidatorRequired)
        \/ k = "validation-failed" /\ call.vcalls[l] = 1
              /\ IsAccessDenied(call.result, layers[l].realm)
        \/ k = "passthrough" /\ RaisedIn(call, l, {"CallError"})
              /\ call.result = call.vout[l] }

C8_ExtractionMissingFirst ==
    \A c \in CallIds :
        LET call == calls[c]
            l == call.layer
        IN (call.pc = "done" /\ l \in call.entered)
           => /\ Cardinality(Classifications(call, l)) = 1
              /\ (/\ layers[l].variant \in Specializations
                  /\ MissingFields(layers[l].variant, RequestId(call)) # {}
                  /\ NoValidator(l))
                 => Classifications(call, l) = {"extraction-missing"}

(***************************************************************************)
(* C9: during one call the validator of a layer is invoked at most once,   *)
(* whatever it returns or raises.                                          *)
(***************************************************************************)
C9_ValidatorAtMostOnce ==
    \A c \in CallIds : \A l \in LayersOf(calls[c]) : calls[c].vcalls[l] <= 1

C9_Witness ==
    \E c \in CallIds :
        LET call == calls[c]
            l == call.layer
        IN /\ call.pc = "done"
           /\ call.vcalls[l] = 1
           /\ Refused(call, l)
           /\ call.result.kind = "raise"

(***************************************************************************)
(* C10: once the handler is served, no step of any call changes a          *)
(* decorator instance: realm, target_callback and every other field keep   *)
(* the values set at decoration.                                           *)
(***************************************************************************)
C10_InstanceUnchangedByCalls ==
    [][phase = "serving" => layers' = layers]_vars

C10_Witness ==
    \E c \in CallIds :
        LET call == calls[c]
            l == call.layer
        IN /\ phase = "serving"
           /\ call.pc = "done"
           /\ call.vcalls[l] = 1
           /\ IsAccessDenied(call.result, "Bearer")
           /\ layers[l].target_callback = Validator

(***************************************************************************)
(* C11: every call of a layer follows START -> EXTRACTING -> (REJECTED |   *)
(* VALIDATING), VALIDATING -> (HANDLER_CALLED | REJECTED); HANDLER_CALLED   *)
(* is reached only after the validator said yes, VALIDATING only after the *)
(* extraction found no missing field, nothing follows REJECTED or          *)
(* HANDLER_CALLED in that call, and every call that has started comes to   *)
(* its end.                                                                *)
(***************************************************************************)
\* the state of layer l in a call: START until the decorated of the layer is
\* called, EXTRACTING until normalize_target_params has returned, VALIDATING
\* until handle_target is over and func is called, then HANDLER_CALLED;
\* REJECTED when decorated was left by an exception before func was called
LayerState(call, l) ==
    IF call.pc = "idle" \/ call.layer > l THEN "START"
    ELSE IF call.layer < l THEN "HANDLER_CALLED"
    ELSE CASE call.pc \in {"decorated", "handle_target"} -> "EXTRACTING"
           [] call.pc \in {"target", "validator", "func"} -> "VALIDATING"
           [] call.pc = "handler" -> "HANDLER_CALLED"
           [] OTHER -> IF call.hcalls = 1 THEN "HANDLER_CALLED" ELSE "REJECTED"

LayerTransitions ==
    { <<"START", "EXTRACTING">>, <<"EXTRACTING", "REJECTED">>,
      <<"EXTRACTING", "VALIDATING">>, <<"VALIDATING", "HANDLER_CALLED">>,
      <<"VALIDATING", "REJECTED">> }

C11_LayerStateMachine ==
    /\ [][\A c \in CallIds : \A l \in LayersOf(calls[c]) :
            LET before == LayerState(calls[c], l)
                after == LayerState(calls'[c], l)
            IN calls'[c].pc # "idle"
               => before = after \/ <<before, after>> \in LayerTransitions]_vars
    /\ [](\A c \in CallIds : \A l \in LayersOf(calls[c]) :
            /\ LayerState(calls[c], l) = "HANDLER_CALLED" => Validated(calls[c], l)
            /\ LayerState(calls[c], l) = "VALIDATING"
               => /\ l \in calls[c].extracted
                  /\ MissingFields(layers[l].variant, RequestId(calls[c])) = {})
    /\ \A c \in CallIds : calls[c].pc = "decorated" ~> calls[c].pc = "done"

C11_Witness ==
    \E c \in CallIds :
        /\ Len(layers) = 2
        /\ calls[c].pc = "done"
        /\ LayerState(calls[c], 2) = "HANDLER_CALLED"
        /\ LayerState(calls[c], 1) = "REJECTED"
        /\ 1 \in calls[c].extracted

(***************************************************************************)
(* C12: when one decorated handler is called concurrently for several      *)
(* requests, each call's outcome is the one it would have had alone: the   *)
(* validator is called with the credentials of the call's own request,     *)
(* the handler of a call runs only on that call's own verdict, and the     *)
(* outcome follows from the call's own request, arguments, validator and   *)
(* handler.                                                                *)
(***************************************************************************)
\* the outcome of a call of a single layer that nothing else interferes with
AloneOutcome(self, call) ==
    LET r == RequestId(call)
        missing == MissingFields(self.variant, r)
    IN IF "request" \in KwNames(call.kwargs)
       THEN { Raised(PyExc("TypeError", "got multiple values for keyword argument")) }
       ELSE IF missing # {}
       THEN { Raised(AccessDenied(self.realm, f \o " is required")) : f \in missing }
       ELSE IF self.target_callback = Unset
       THEN { Raised(ValidatorRequired) }
       ELSE IF RaisedIn(call, 1, {"AttributeError", "TypeError"})
       THEN { Raised(ValidatorRequired) }
       ELSE IF RaisedIn(call, 1, {"CallError", "SystemExit"})
       THEN { call.vout[1] }
       ELSE IF call.vout[1].kind = "raise"
       THEN { Raised(AccessDenied(self.realm, message(call.vout[1].exc))) }
       ELSE IF Refused(call, 1)
       THEN { Raised(AccessDenied(self.realm, "target did not return True")) }
       ELSE { call.hout }

C12_ConcurrentCallsAsIfAlone ==
    \A c \in AllCallIds :
        LET call == calls[c]
            self == layers[1]
            r == RequestId(call)
        IN /\ call.vcalls[1] > 0
              => /\ call.vargs[1][1] = PyObj("Request", r)
                 /\ self.variant \in Specializations
                    => /\ Len(call.vargs[1]) = 1
                       /\ call.vkwargs[1] = RequiredFields(self.variant, r)
                 /\ self.variant = "auth"
                    => /\ Tail(call.vargs[1]) = call.args
                       /\ call.vkwargs[1] = call.kwargs
           /\ call.hcalls > 0 => call.hcalls = 1 /\ Validated(call, 1)
           /\ call.pc = "done" => call.result \in AloneOutcome(self, call)

C12_Witness ==
    /\ layers[1].variant = "basic_auth"
    /\ calls[1].pc = "done" /\ calls[2].pc = "done"
    /\ RequestId(calls[1]) = "r_full" /\ RequestId(calls[2]) = "r_other"
    /\ Validated(calls[1], 1) /\ Refused(calls[2], 1)
    /\ calls[1].result = Returned(PyStr("hello world"))
    /\ calls[2].result = Raised(AccessDenied("basic", "target did not return True"))

(***************************************************************************)
(* C13: every AccessDenied a layer raises, for a missing credential or for *)
(* a validator that rejected, carries the realm fixed at decoration:       *)
(* "basic" for basic_auth and for client_auth, "Bearer" for token_auth,    *)
(* and for generic auth the realm the decorator was written with, the      *)
(* empty string when it was written with none.                             *)
(***************************************************************************)
\* the realm of the decorator expression w
RealmAsWritten(w) ==
    CASE w.variant \in {"basic_auth", "client_auth"} -> "basic"
      [] w.variant = "token_auth" -> "Bearer"
      [] OTHER -> IF w.realm = Omitted THEN "" ELSE w.realm.v

C13_RealmFixedAtDecoration ==
    \A c \in CallIds :
        LET call == calls[c]
        IN (call.pc = "done" /\ call.result.kind = "raise"
            /\ call.result.exc.cls = "AccessDenied")
           => call.result.exc.realm = RealmAsWritten(written[call.layer])

C13_Witness ==
    \E c \in CallIds :
        /\ Len(layers) = 2
        /\ written[1].variant = "client_auth"
        /\ written[2].variant = "auth" /\ written[2].realm = PyStr("custom")
        /\ calls[c].pc = "done" /\ calls[c].layer = 1
        /\ Refused(calls[c], 1)
        /\ calls[c].result = Raised(AccessDenied("basic", "target did not return True"))

(***************************************************************************)
(* C14: the validator receives exactly the arguments of its variant:       *)
(* generic auth calls it with the request, then the handler's positional   *)
(* arguments, and the handler's keyword arguments; basic_auth with the     *)
(* request, username and password of request.get_auth_basic() and nothing  *)
(* else; client_auth with the request, client_id and client_secret of      *)
(* request.client_tokens; token_auth with the request and the              *)
(* access_token of request.access_token.                                   *)
(***************************************************************************)
C14_ValidatorArguments ==
    \A c \in CallIds : \A l \in LayersOf(calls[c]) :
        LET call == calls[c]
            r == RequestId(call)
            variant == layers[l].variant
        IN call.vcalls[l] > 0
           => /\ variant = "auth"
                 => /\ call.vargs[l] = <<request_of(call.decorated_self)>> \o call.args
                    /\ call.vkwargs[l] = call.kwargs
              /\ variant = "basic_auth"
                 => /\ call.vargs[l] = <<request_of(call.decorated_self)>>
                    /\ call.vkwargs[l] = { <<"username", get_auth_basic(r)[1]>>,
                                           <<"password", get_auth_basic(r)[2]>> }
              /\ variant = "client_auth"
                 => /\ call.vargs[l] = <<request_of(call.decorated_self)>>
                    /\ call.vkwargs[l] = { <<"client_id", client_tokens(r)[1]>>,
                                           <<"client_secret", client_tokens(r)[2]>> }
              /\ variant = "token_auth"
                 => /\ call.vargs[l] = <<request_of(call.decorated_self)>>
                    /\ call.vkwargs[l] = { <<"access_token", access_token(r)>> }

C14_Witness ==
    \E c \in CallIds :
        /\ Len(layers) = 2
        /\ layers[2].variant = "auth" /\ layers[1].variant = "client_auth"
        /\ calls[c].vcalls[2] = 1 /\ calls[c].vcalls[1] = 1
        /\ calls[c].args = <<PyStr("a")>>
        /\ calls[c].vargs[2] = <<PyObj("Request", "r_other"), PyStr("a")>>
        /\ calls[c].vkwargs[2] = {<<"k", PyStr("b")>>}
        /\ calls[c].vkwargs[1] = { <<"client_id", PyStr("id2")>>,
                                   <<"client_secret", PyStr("secret2")>> }

(***************************************************************************)
(* C15: two calls of the same decorated handler in sequence, with the same *)
(* request credentials, the same arguments and a validator that behaves    *)
(* the same way, end with the same classification: both with the handler   *)
(* invoked, or both with the same exception of the layer, whatever other   *)
(* calls were made on the decorated handler before or between them.        *)
(***************************************************************************)
\* how a call that is over ended: the handler ran, or decorated was left by
\* this exception
Classification(call) ==
    IF call.hcalls = 1 THEN [class |-> "handler", exc |-> NoExc]
    ELSE [class |-> call.result.exc.cls, exc |-> call.result.exc]

SameInputs(a, b) ==
    /\ a.decorated_self = b.decorated_self
    /\ a.args = b.args
    /\ a.kwargs = b.kwargs
    /\ a.vout = b.vout

C15_SameCallSameClassification ==
    \A c \in CallIds :
        (calls[c].pc = "done" /\ prev.pc = "done" /\ SameInputs(prev, calls[c]))
        => Classification(calls[c]) = Classification(prev)

C15_Witness ==
    \E c \in CallIds :
        /\ calls[c].pc = "done" /\ prev.pc = "done"
        /\ SameInputs(prev, calls[c])
        /\ RequestId(calls[c]) = "r_other"
        /\ layers[1].variant = "basic_auth"
        /\ RaisedIn(calls[c], 1, {"KeyError"})
        /\ calls[c].result = Raised(AccessDenied("basic", "no such user"))
        /\ prev.result = calls[c].result

(***************************************************************************)
(* C16, as stated: no exception raised inside the validator leaves the     *)
(* decorated call as a raw exception; a layer itself raises only           *)
(* AccessDenied and CallError; an unrelated exception of the validator     *)
(* gives AccessDenied carrying that exception's message, and a falsy       *)
(* return gives AccessDenied with "target did not return True".            *)
(***************************************************************************)
\* the validator of layer l raised something target does not take for a
\* missing validator and handle_target does not pass through
RaisedUnrelated(call, l) ==
    /\ call.vout[l].kind = "raise"
    /\ call.vout[l].exc.cls \notin {"CallError", "AttributeError", "TypeError"}

C17_ValidatorTypeErrorIsSetupError ==
    \A c \in CallIds :
        LET call == calls[c]
            l == call.layer
        IN (call.pc = "done" /\ l \in call.extracted)
           => /\ RaisedIn(call, l, {"AttributeError", "TypeError"})
                 => /\ ~NoValidator(l)
                    /\ call.hcalls = 0
                    /\ call.result = Raised(ValidatorRequired)
              /\ NoValidator(l)
                 => call.vcalls[l] = 0 /\ call.result = Raised(ValidatorRequired)

C17_Witness ==
    \E c \in CallIds :
        /\ calls[c].pc = "done"
        /\ calls[c].layer \in calls[c].extracted
        /\ layers[calls[c].layer].target_callback = Validator
        /\ calls[c].vout[calls[c].layer] = Raised(PyExc("TypeError", "bad operand"))
        /\ calls[c].result = Raised(ValidatorRequired)

(***************************************************************************)
(* C18: an exception the original handler raises after a successful        *)
(* validation leaves the decorated call unchanged; it is never turned into *)
(* AccessDenied or into the setup-error CallError, also when it is a       *)
(* TypeError.                                                              *)
(***************************************************************************)
C18_HandlerExceptionPropagates ==
    \A c \in CallIds :
        LET call == calls[c]
        IN (call.pc = "done" /\ call.hout.kind = "raise")
           => /\ call.result = call.hout
              /\ \A l \in LayersOf(call) : Validated(call, l)

C18_Witness ==
    \E c \in CallIds :
        /\ calls[c].pc = "done"
        /\ calls[c].hcalls = 1
        /\ calls[c].hout = Raised(PyExc("TypeError", "handler failed"))
        /\ calls[c].result = Raised(PyExc("TypeError", "handler failed"))

(***************************************************************************)
(* C19: with two decorator layers stacked on one handler, a call runs the  *)
(* extraction and validation of the outer layer to their end before the    *)
(* inner layer starts; when the outer layer rejects, the validator of the  *)
(* inner layer is never invoked; the original handler is invoked only      *)
(* when every layer succeeded, so its invocations never exceed the         *)
(* successful validations of any layer.                                    *)
(***************************************************************************)
\* successful validations of layer l in this call
Successes(call, l) == IF Validated(call, l) THEN 1 ELSE 0

C19_OuterLayerFirst ==
    \A c \in CallIds : \A l \in LayersOf(calls[c]) :
        LET call == calls[c]
            outer == { k \in LayersOf(call) : k > l }
        IN /\ l \in call.entered
              => \A k \in outer : k \in call.extracted /\ Validated(call, k)
           /\ (\E k \in outer : ~Validated(call, k)) => call.vcalls[l] = 0
           /\ call.hcalls <= Successes(call, l)

C19_Witness ==
    \E c \in CallIds :
        /\ Len(layers) = 2
        /\ calls[c].pc = "done"
        /\ layers[1].target_callback = Validator
        /\ calls[c].vcalls[2] = 1 /\ Refused(calls[c], 2)
        /\ 1 \notin calls[c].entered /\ calls[c].vcalls[1] = 0
        /\ calls[c].hcalls = 0

(***************************************************************************)
(* C20: missing fields are checked in a fixed order and the first missing  *)
(* one is reported: a basic_auth call whose username is empty is rejected  *)
(* with "username is required", a client_auth call whose client_id is      *)
(* empty with "client_id is required", and the second field is named only  *)
(* when the first is not empty.                                            *)
(***************************************************************************)
\* the two fields of a variant in the order its normalize_target_params
\* checks them
FieldOrder(variant, r) ==
    IF variant = "basic_auth"
    THEN << <<"username", get_auth_basic(r)[1]>>, <<"password", get_auth_basic(r)[2]>> >>
    ELSE << <<"client_id", client_tokens(r)[1]>>, <<"client_secret", client_tokens(r)[2]>> >>

RequiredMessage(call, l, field) ==
    Raised(AccessDenied(layers[l].realm, field \o " is required"))

C20_FirstMissingFieldReported ==
    \A c \in CallIds :
        LET call == calls[c]
            l == call.layer
            fields == FieldOrder(layers[l].variant, RequestId(call))
        IN (call.pc = "done" /\ l \in call.entered
            /\ layers[l].variant \in {"basic_auth", "client_auth"})
           => /\ Not(fields[1][2]) => call.result = RequiredMessage(call, l, fields[1][1])
              /\ call.result = RequiredMessage(call, l, fields[2][1])
                 => ~Not(fields[1][2]) /\ Not(fields[2][2])

====
